---- MODULE Spec2Model ----
(***************************************************************************)
(* Model of the Testudo watchdog: the supervisor (start / run / cleanup), *)
(* one monitoring loop task per loaded course, the check pipeline          *)
(* (scrape -> analyse -> notify), the signal handler and the web           *)
(* service's lifespan shutdown.                                            *)
(*                                                                         *)
(* Tasks are asyncio tasks: a task only changes state at its own steps, a  *)
(* requested cancellation is delivered as CancelledError at the task's     *)
(* next suspension point, and the signal handler can run between any two   *)
(* steps.                                                                  *)
(***************************************************************************)
EXTENDS Integers, Sequences, FiniteSets, TLC

\* ---------------------------------------------------------------- bounds
MaxTargets == 2          \* entries in the targets list of the YAML file
MaxChecks == 2           \* checks the monitoring loops may start in all
MaxRecipients == 3       \* recipients of one alert
MaxRetries == 3          \* largest max_retries send_sms / scrape_page is called with
MaxTemplate == 2         \* parts (text, fields, braces) of a message template

\* ------------------------------------------------------ program constants
ErrorBackoff == 60       \* asyncio.sleep(60) in the loop's error handler
DefaultInterval == 300   \* target.get("interval", 300)
DefaultMaxRetries == 3   \* send_sms(..., max_retries: int = 3)
HTTP_200_OK == 200
HTTP_503_SERVICE_UNAVAILABLE == 503

None == -1               \* Python's None for an hour / a missing value
Ids == {"a", "b"}
Hours == {5, 8, 23}      \* hours the wall clock may show at a window check

\* ------------------------------------------------------------- the input
\* One entry of the targets list.  has_instructions: the entry carries a
\* usable user_instructions field; tz_ok: ZoneInfo(check_timezone) resolves.
Target(id, enabled, instr, start, end, tz, interval) ==
    [id |-> id, enabled |-> enabled, has_instructions |-> instr,
     check_start_hour |-> start, check_end_hour |-> end, tz_ok |-> tz,
     check_interval_seconds |-> interval]

\* The entries a file is built from: a course with a day window, a course
\* whose timezone does not resolve, a disabled entry, and an entry without
\* user_instructions.
TargetSpecs ==
    { Target("a", TRUE,  TRUE,  8,  23, TRUE,  DefaultInterval),
      Target("b", TRUE,  TRUE,  22, 6,  FALSE, 30),
      Target("b", FALSE, TRUE,  8,  23, TRUE,  DefaultInterval),
      Target("a", TRUE,  FALSE, 8,  23, TRUE,  DefaultInterval) }

SeqsUpTo(S, n) == UNION { [1..k -> S] : k \in 0..n }

\* A configuration file: either one without a usable 'targets' key, or a
\* list of at most MaxTargets entries.
Configs ==
    { [has_targets |-> FALSE, targets |-> <<>>] } \cup
    { [has_targets |-> TRUE, targets |-> s] : s \in SeqsUpTo(TargetSpecs, MaxTargets) }

\* ------------------------------------------------------- pure functions
\* CourseConfig(...) accepts the entry: user_instructions passes its
\* validator and the int fields hold ints (None is not an int).
CourseConfigValid(target) ==
    /\ target.has_instructions
    /\ target.check_start_hour # None
    /\ target.check_end_hour # None

\* load_course_configs: the enabled entries that validate, in file order.
LoadKeep(target) == target.enabled /\ CourseConfigValid(target)

\* A loader that gives up on the whole file at the first entry that does
\* not validate.
load_course_configs_all_or_nothing(cfg) ==
    IF \A i \in 1..Len(cfg.targets) :
           cfg.targets[i].enabled => CourseConfigValid(cfg.targets[i])
    THEN SelectSeq(cfg.targets, LoadKeep)
    ELSE <<>>

load_course_configs(cfg) == SelectSeq(cfg.targets, LoadKeep)

\* A window whose end hour is still inside it.
is_within_check_window_end_inclusive(course, current_hour) ==
    IF ~course.tz_ok THEN TRUE
    ELSE IF course.check_start_hour = None \/ course.check_end_hour = None THEN TRUE
    ELSE IF course.check_start_hour <= course.check_end_hour
         THEN course.check_start_hour <= current_hour /\ current_hour <= course.check_end_hour
         ELSE current_hour >= course.check_start_hour \/ current_hour <= course.check_end_hour

\* A window test that keeps the window shut when the timezone does not
\* resolve.
is_within_check_window_fail_closed(course, current_hour) ==
    /\ course.tz_ok
    /\ IF course.check_start_hour = None \/ course.check_end_hour = None THEN TRUE
       ELSE IF course.check_start_hour <= course.check_end_hour
            THEN course.check_start_hour <= current_hour /\ current_hour < course.check_end_hour
            ELSE current_hour >= course.check_start_hour \/ current_hour < course.check_end_hour

\* is_within_check_window, with the hour datetime.now(tz) shows as its
\* second argument; ZoneInfo raising sends it to 'except: return True'.
is_within_check_window(course, current_hour) ==
    IF ~course.tz_ok THEN TRUE
    ELSE IF course.check_start_hour = None \/ course.check_end_hour = None THEN TRUE
    ELSE IF course.check_start_hour <= course.check_end_hour
         THEN course.check_start_hour <= current_hour /\ current_hour < course.check_end_hour
         ELSE current_hour >= course.check_start_hour \/ current_hour < course.check_end_hour

\* check_availability without the conversion of a failure: a failed
\* analysis counts as a met condition.
check_availability_unguarded(outcome) ==
    [is_available |-> (outcome # "unavailable"), failed |-> (outcome = "raise")]

\* AIAgentService.check_availability: the agent's answer, or, when the run
\* raises, the synthesized "not available" result.
check_availability(outcome) ==
    IF outcome = "raise"
    THEN [is_available |-> FALSE, failed |-> TRUE]
    ELSE [is_available |-> (outcome = "available"), failed |-> FALSE]

\* ------------------------------------------------------------- the state
VARIABLES
    config,            \* the YAML file
    courses,           \* run(): the loaded courses; task i monitors courses[i]
    course_tasks,      \* self.course_tasks: id -> task (0 = no entry)
    pc,                \* where each monitoring task stands
    cancelReq,         \* task.cancel() was called and not yet delivered
    chk,               \* what the task's current / last check did
    runNo,             \* checks the task has started
    sleepFor,          \* argument of the asyncio.sleep the task is in, or was in last
    running,           \* self.running
    last_check_times,  \* self.last_check_times: id -> stamp (NoStamp = no entry)
    scraper,           \* self.scraper is set
    browser,           \* scraper.browser: "none" or "open"
    closes,            \* how often browser.close() was performed
    mpc,               \* where the task running start() stands
    fatal,             \* start() is leaving with an exception
    cpos,              \* position of a cleanup() call in course_tasks.items()
    cwait,             \* that cleanup() call is in its 'await task'
    lpc                \* where the web service's lifespan stands

vars == << config, courses, course_tasks, pc, cancelReq, chk, runNo, sleepFor,
           running, last_check_times, scraper, browser, closes, mpc, fatal,
           cpos, cwait, lpc >>

\* The alert fan-out (NotificationService) and the window function are
\* examined on their own, with their own state.
VARIABLES
    recipients,            \* send_availability_alert: the recipients list
    max_retries,           \* send_sms: the max_retries argument
    fpc,                   \* where send_availability_alert stands
    spc,                   \* where each send_sms coroutine stands
    attempt,               \* send_sms: the loop variable 'attempt'
    calls,                 \* invocations of client.messages.create per recipient
    fails,                 \* exceptions those invocations raised per recipient
    last_error,            \* the exception 'e' caught last: << kind, attempt >>
    waits,                 \* the wait_time values slept, in order
    send_result,           \* the NotificationResult send_sms returned
    notification_results,  \* the list send_availability_alert returns
    win_target,            \* the entry handed to CourseConfig / the window test
    win_hour,              \* datetime.now(tz).hour
    win_loaded,            \* what load_course_configs did with the entry
    win_result             \* what is_within_check_window returned

nvars == << recipients, max_retries, fpc, spc, attempt, calls, fails, last_error,
            waits, send_result, notification_results >>
wvars == << win_target, win_hour, win_loaded, win_result >>

\* The rendering of the alert text is examined on its own as well.
VARIABLES
    custom_message,        \* send_availability_alert: the custom_message argument
    message                \* the text handed to send_sms

rvars == << custom_message, message >>

\* So are one call of ScraperService.scrape_page by a check, and the
\* /health endpoint of the web service.
VARIABLES
    s_max_retries,         \* scrape_page: the max_retries argument
    s_check,               \* where the calling check_course stands
    s_calls,               \* calls of scrape_page the check has made
    s_pc,                  \* where scrape_page stands
    s_attempt,             \* scrape_page: the loop variable 'attempt'
    s_fails,               \* attempts that ended in the 'except Exception' handler
    s_pending,             \* what the 'finally' block will go on with
    s_error,               \* the exception in flight or raised: << step, attempt >>
    s_result,              \* the attempt whose result scrape_page returned
    s_waits,               \* the wait_time values slept, in order
    s_contexts,            \* browser contexts open
    s_pages,               \* pages open
    health                 \* the response of the last /health request

svars == << s_max_retries, s_check, s_calls, s_pc, s_attempt, s_fails, s_pending,
            s_error, s_result, s_waits, s_contexts, s_pages >>
hvars == << health >>
xvars == << rvars, svars, hvars >>
otherVars == << nvars, wvars, xvars >>

NoError == << "none", 0 >>
Tasks == DOMAIN pc
Callers == {"start", "lifespan"}     \* who calls cleanup()
NoStamp == << 0, 0 >>
NoCheck == [window |-> "none", fetch |-> "none", analysis |-> "none", notify |-> "none",
            ended |-> "none"]
Terminal == {"done", "cancelled"}
Done(t) == pc[t] \in Terminal
InCheck(t) == pc[t] \in {"fetch", "analyze", "notify"}

\* No alert is being sent.
NotifyIdle ==
    /\ recipients = <<>>
    /\ max_retries = DefaultMaxRetries
    /\ fpc = "idle"
    /\ spc = <<>>
    /\ attempt = <<>>
    /\ calls = <<>>
    /\ fails = <<>>
    /\ last_error = <<>>
    /\ waits = <<>>
    /\ send_result = <<>>
    /\ notification_results = <<>>

\* No alert text is being rendered.
RenderIdle ==
    /\ custom_message = <<>>
    /\ message = <<>>

\* scrape_page is not being called.
ScrapeIdle ==
    /\ s_max_retries = DefaultMaxRetries
    /\ s_check = "start"
    /\ s_calls = 0
    /\ s_pc = "idle"
    /\ s_attempt = 0
    /\ s_fails = 0
    /\ s_pending = "none"
    /\ s_error = NoError
    /\ s_result = 0
    /\ s_waits = <<>>
    /\ s_contexts = 0
    /\ s_pages = 0

NoResponse == [code |-> 0, status |-> "none", background_task_status |-> "none",
               monitored_courses |-> 0]

\* No /health request has been answered.
HealthIdle == health = NoResponse

ExtraIdle == RenderIdle /\ ScrapeIdle /\ HealthIdle

\* No window is being evaluated.
WindowIdle ==
    /\ win_target = Target("a", TRUE, TRUE, 8, 23, TRUE, DefaultInterval)
    /\ win_hour = 0
    /\ win_loaded = "none"
    /\ win_result = "none"

Init ==
    /\ config \in Configs
    /\ courses = <<>>
    /\ course_tasks = [i \in Ids |-> 0]
    /\ pc = <<>>
    /\ cancelReq = <<>>
    /\ chk = <<>>
    /\ runNo = <<>>
    /\ sleepFor = <<>>
    /\ running = FALSE
    /\ last_check_times = [i \in Ids |-> NoStamp]
    /\ scraper = FALSE
    /\ browser = "none"
    /\ closes = 0
    /\ mpc = "initialize"
    /\ fatal = FALSE
    /\ cpos = [w \in Callers |-> 0]
    /\ cwait = [w \in Callers |-> FALSE]
    /\ lpc = "serving"
    /\ NotifyIdle
    /\ WindowIdle
    /\ ExtraIdle

\* ------------------------------------------------------------ supervisor
loopVars == << pc, cancelReq, chk, runNo, sleepFor >>
cfgVars == << config, courses, course_tasks >>

\* initialize() succeeds: the scraper exists and its browser is launched.
InitializeOk ==
    /\ mpc = "initialize"
    /\ scraper' = TRUE
    /\ browser' = "open"
    /\ mpc' = "load"
    /\ UNCHANGED << otherVars, cfgVars, loopVars, running, last_check_times, closes, fatal,
                    cpos, cwait, lpc >>

\* initialize() raises: either the browser launch failed (b = "none") or a
\* later service did (b = "open"); start() re-raises after cleanup().
InitializeFail(b) ==
    /\ mpc = "initialize"
    /\ scraper' = TRUE
    /\ browser' = b
    /\ fatal' = TRUE
    /\ mpc' = "cleanup"
    /\ cpos' = [cpos EXCEPT !["start"] = 1]
    /\ UNCHANGED << otherVars, cfgVars, loopVars, running, last_check_times, closes,
                    cwait, lpc >>

\* A loader that hands on whatever the file holds; run() then reads
\* config.get("targets", []).
load_courses_config_lenient(cfg) == TRUE

\* Settings.load_courses_config raises when the file has no 'targets' key.
load_courses_config_ok(cfg) == cfg.has_targets

\* self.course_tasks after the loop of run(): a later course with the same
\* id replaces the entry of an earlier one.
TaskOf(cs, i) ==
    LET S == { t \in 1..Len(cs) : cs[t].id = i }
    IN IF S = {} THEN 0 ELSE CHOOSE t \in S : \A u \in S : u <= t

\* The keys of self.course_tasks in insertion order.
FirstOcc(cs, t) == \A u \in 1..(t - 1) : cs[u].id # cs[t].id
DictKeys(cs) ==
    LET idx == SelectSeq([t \in 1..Len(cs) |-> t], LAMBDA t : FirstOcc(cs, t))
    IN [k \in 1..Len(idx) |-> cs[idx[k]].id]

\* The tasks run() gathers and cleanup() cancels.
Tracked == { course_tasks[i] : i \in Ids } \ {0}

\* run() up to the gather: load the courses and start one task per course.
RunLoadFails ==
    /\ mpc = "load"
    /\ ~load_courses_config_ok(config)
    /\ fatal' = TRUE
    /\ mpc' = "cleanup"
    /\ cpos' = [cpos EXCEPT !["start"] = 1]
    /\ UNCHANGED << otherVars, cfgVars, loopVars, running, last_check_times, scraper,
                    browser, closes, cwait, lpc >>

\* A run() that sets the flag first and treats an empty list as an error.
RunOnNoCoursesFails == [running |-> TRUE, raises |-> TRUE]

\* 'if not courses: logger.warning(...); return' ahead of
\* 'self.running = True': run() returns normally, the flag untouched.
RunOnNoCourses == [running |-> FALSE, raises |-> FALSE]

RunNoCourses ==
    /\ mpc = "load"
    /\ load_courses_config_ok(config)
    /\ load_course_configs(config) = <<>>
    /\ running' = RunOnNoCourses.running
    /\ fatal' = RunOnNoCourses.raises
    /\ mpc' = "cleanup"
    /\ cpos' = [cpos EXCEPT !["start"] = 1]
    /\ UNCHANGED << otherVars, cfgVars, loopVars, last_check_times, scraper,
                    browser, closes, cwait, lpc >>

RunStartTasks ==
    /\ mpc = "load"
    /\ load_courses_config_ok(config)
    /\ load_course_configs(config) # <<>>
    /\ courses' = load_course_configs(config)
    /\ running' = TRUE
    /\ course_tasks' = [i \in Ids |-> TaskOf(courses', i)]
    /\ pc' = [t \in 1..Len(courses') |-> "start"]
    /\ cancelReq' = [t \in 1..Len(courses') |-> FALSE]
    /\ chk' = [t \in 1..Len(courses') |-> NoCheck]
    /\ runNo' = [t \in 1..Len(courses') |-> 0]
    /\ sleepFor' = [t \in 1..Len(courses') |-> 0]
    /\ mpc' = "gather"
    /\ UNCHANGED << otherVars, config, last_check_times, scraper, browser, closes, fatal,
                    cpos, cwait, lpc >>

\* asyncio.gather(*self.course_tasks.values()) returns once every gathered
\* task is done, and raises CancelledError as soon as one of them ended
\* cancelled; either way run() leaves through 'finally: running = False'.
GatherDone ==
    /\ mpc = "gather"
    /\ \/ \A t \in Tracked : Done(t)
       \/ \E t \in Tracked : pc[t] = "cancelled"
    /\ running' = FALSE
    /\ mpc' = "cleanup"
    /\ cpos' = [cpos EXCEPT !["start"] = 1]
    /\ UNCHANGED << otherVars, cfgVars, loopVars, last_check_times, scraper, browser,
                    closes, fatal, cwait, lpc >>

\* 'await task' in cleanup() returns once that task is done.
TaskAwaited(t) == Done(t)

InCleanup(w) ==
    /\ cpos[w] >= 1
    /\ IF w = "start" THEN mpc = "cleanup" ELSE lpc = "cleanup"

\* cleanup(), one entry of course_tasks.items(): a task that is done is
\* passed over, any other is cancelled and awaited.
CleanupCancel(w) ==
    /\ InCleanup(w) /\ ~cwait[w]
    /\ cpos[w] <= Len(DictKeys(courses))
    /\ LET t == course_tasks[DictKeys(courses)[cpos[w]]]
       IN IF Done(t)
          THEN /\ cpos' = [cpos EXCEPT ![w] = @ + 1]
               /\ UNCHANGED << cancelReq, cwait >>
          ELSE /\ cancelReq' = [cancelReq EXCEPT ![t] = TRUE]
               /\ cwait' = [cwait EXCEPT ![w] = TRUE]
                          /\ UNCHANGED cpos
    /\ UNCHANGED << otherVars, cfgVars, pc, chk, runNo, sleepFor, running, last_check_times,
                    scraper, browser, closes, mpc, fatal, lpc >>

CleanupAwaited(w) ==
    /\ InCleanup(w) /\ cwait[w]
    /\ cpos[w] <= Len(DictKeys(courses))
    /\ TaskAwaited(course_tasks[DictKeys(courses)[cpos[w]]])
    /\ cwait' = [cwait EXCEPT ![w] = FALSE]
    /\ cpos' = [cpos EXCEPT ![w] = @ + 1]
    /\ UNCHANGED << otherVars, cfgVars, loopVars, running, last_check_times, scraper,
                    browser, closes, mpc, fatal, lpc >>

\* The cleanup() call of w is in 'await self.browser.close()'.
InClose(w) == InCleanup(w) /\ cwait[w] /\ cpos[w] > Len(DictKeys(courses))

\* cleanup() returns to its caller.
CleanupReturns(w) ==
    /\ cpos' = [cpos EXCEPT ![w] = 0]
    /\ IF w = "start" THEN mpc' = "done" /\ lpc' = lpc
                      ELSE lpc' = "done" /\ mpc' = mpc

\* cleanup(), after the loop: 'if self.scraper: await self.scraper.close()';
\* ScraperService.close calls browser.close() only when a browser is set,
\* and awaits it; with no browser set cleanup() is over.
CleanupClose(w) ==
    /\ InCleanup(w) /\ ~cwait[w]
    /\ cpos[w] > Len(DictKeys(courses))
    /\ IF scraper /\ browser = "open"
       THEN /\ closes' = closes + 1
            /\ cwait' = [cwait EXCEPT ![w] = TRUE]
            /\ UNCHANGED << cpos, mpc, lpc >>
       ELSE /\ CleanupReturns(w)
            /\ UNCHANGED << closes, cwait >>
    /\ UNCHANGED << otherVars, cfgVars, loopVars, running, last_check_times, scraper,
                    browser, fatal >>

\* 'await self.browser.close()' returns: 'self.browser = None', and
\* cleanup() is over.
CleanupClosed(w) ==
    /\ InClose(w)
    /\ browser' = "none"
    /\ cwait' = [cwait EXCEPT ![w] = FALSE]
    /\ CleanupReturns(w)
    /\ UNCHANGED << otherVars, cfgVars, loopVars, running, last_check_times, scraper,
                    closes, fatal >>

\* signal_handler: SIGINT / SIGTERM only clear the running flag.
Signal ==
    /\ running
    /\ running' = FALSE
    /\ UNCHANGED << otherVars, cfgVars, loopVars, last_check_times, scraper, browser,
                    closes, mpc, fatal, cpos, cwait, lpc >>

\* lifespan() after the yield: clear the flag and cancel the crawler task.
\* The CancelledError reaches start() at its current await: in initialize()
\* it sends start() into its finally; in the gather it cancels every
\* gathered task; in cleanup()'s 'await task' it is swallowed; in
\* cleanup()'s 'await self.browser.close()' it ends cleanup() and start()
\* before 'self.browser = None'.
LifespanShutdown ==
    /\ lpc = "serving"
    /\ mpc # "load"
    /\ running' = FALSE
    /\ lpc' = "await_task"
    /\ IF mpc = "initialize"
       THEN /\ mpc' = "cleanup"
            /\ cpos' = [cpos EXCEPT !["start"] = 1]
            /\ \E s \in BOOLEAN, b \in {"none", "open"} :
                  /\ (b = "open") => s
                  /\ scraper' = s
                  /\ browser' = b
            /\ UNCHANGED << cancelReq, cwait >>
       ELSE IF InClose("start")
       THEN /\ mpc' = "done"
            /\ cpos' = [cpos EXCEPT !["start"] = 0]
            /\ cwait' = [cwait EXCEPT !["start"] = FALSE]
            /\ UNCHANGED << cancelReq, scraper, browser >>
       ELSE /\ cancelReq' = [t \in Tasks |->
                   IF mpc = "gather" /\ t \in Tracked /\ ~Done(t)
                   THEN TRUE ELSE cancelReq[t]]
            /\ UNCHANGED << mpc, cpos, scraper, browser, cwait >>
    /\ UNCHANGED << otherVars, cfgVars, pc, chk, runNo, sleepFor, last_check_times, closes,
                    fatal >>

\* lifespan(): 'await crawler_task' returned; it calls cleanup() again.
LifespanAwaited ==
    /\ lpc = "await_task"
    /\ mpc = "done"
    /\ lpc' = "cleanup"
    /\ cpos' = [cpos EXCEPT !["lifespan"] = 1]
    /\ UNCHANGED << otherVars, cfgVars, loopVars, running, last_check_times, scraper,
                    browser, closes, mpc, fatal, cwait >>

\* ------------------------------------------------------- monitoring loop
supVars == << running, scraper, closes, mpc, fatal, cpos, cwait, lpc >>

\* A sleep of no length after the check.
IntervalNone(t) == 0

\* asyncio.sleep(course.check_interval_seconds)
Interval(t) == courses[t].check_interval_seconds

RECURSIVE SumTo(_, _)
SumTo(f, n) == IF n = 0 THEN 0 ELSE f[n] + SumTo(f, n - 1)
ChecksStarted == SumTo(runNo, Len(runNo))

\* A loop that never looks at the flag ('while True').
LoopContinuesAlways == TRUE

\* 'while self.running': the loop goes on exactly while the flag is set.
LoopContinues == running

\* A loop without the handler: the exception ends the task.
LoopErrorEnds == [pc |-> "done", sleep |-> ErrorBackoff]

\* A handler that falls through to the interval sleep after its 60 seconds.
LoopErrorAlsoInterval == [pc |-> "backoff", sleep |-> ErrorBackoff + DefaultInterval]

\* The handler of 'except Exception' in monitor_course_loop: log, sleep 60
\* seconds, back to the loop top.
LoopErrorNext == [pc |-> "backoff", sleep |-> ErrorBackoff]

\* A check_course whose try covers the fetch only.
check_course_catches_fetch_only(step) == step = "fetch"

\* check_course's own 'except Exception' covers every step of the check.
check_course_catches(step) == step \in {"fetch", "analysis", "notify"}

\* An alert that is sent only while no check has completed yet.
ShouldNotifyFirstOnly(availability) ==
    availability.is_available /\ \A i \in Ids : last_check_times[i] = << 0, 0 >>

\* 'if availability.is_available:' decides whether the alert is sent.
ShouldNotify(availability) == availability.is_available

\* A loop that takes its next iteration only while no other loop is in a
\* check (one check at a time in the whole process).
AtTopExclusive(t) ==
    /\ pc[t] \in {"start", "sleep", "backoff"} /\ ~cancelReq[t]
    /\ \A u \in Tasks \ {t} : ~InCheck(u)

\* A task resumes at the loop top: at its first step, or when its
\* asyncio.sleep (interval sleep or error backoff) returns.
AtTop(t) == pc[t] \in {"start", "sleep", "backoff"} /\ ~cancelReq[t]

\* 'while self.running' fails: the coroutine returns.
LoopExit(t) ==
    /\ AtTop(t)
    /\ ~LoopContinues
    /\ pc' = [pc EXCEPT ![t] = "done"]
    /\ chk' = [chk EXCEPT ![t] = NoCheck]
    /\ UNCHANGED << otherVars, cfgVars, cancelReq, runNo, sleepFor, last_check_times, browser, supVars >>

\* An iteration that runs the check whatever the window test said.
RunsPipelineAlways(open) == TRUE

\* 'if self.is_within_check_window(course): await self.check_course(course)'
RunsPipeline(open) == open

\* What the iteration's window test returned.
WindowSeen(t, hour) ==
    IF is_within_check_window(courses[t], hour) THEN "open" ELSE "closed"

\* The window is open: check_course starts and awaits scrape_page, which
\* launches a browser first when none is set.
CheckStart(t, hour) ==
    /\ AtTop(t)
    /\ LoopContinues
    /\ ChecksStarted < MaxChecks
    /\ RunsPipeline(is_within_check_window(courses[t], hour))
    /\ pc' = [pc EXCEPT ![t] = "fetch"]
    /\ runNo' = [runNo EXCEPT ![t] = @ + 1]
    /\ chk' = [chk EXCEPT ![t] = [NoCheck EXCEPT !.fetch = "called",
                                                !.window = WindowSeen(t, hour)]]
    /\ sleepFor' = [sleepFor EXCEPT ![t] = 0]
    /\ browser' = "open"
    /\ UNCHANGED << otherVars, cfgVars, cancelReq, last_check_times, supVars >>

\* The window is closed: the iteration skips the check and sleeps.
WindowClosed(t, hour) ==
    /\ AtTop(t)
    /\ LoopContinues
    /\ ~RunsPipeline(is_within_check_window(courses[t], hour))
    /\ pc' = [pc EXCEPT ![t] = "sleep"]
    /\ sleepFor' = [sleepFor EXCEPT ![t] = Interval(t)]
    /\ chk' = [chk EXCEPT ![t] = [NoCheck EXCEPT !.ended = "skipped",
                                                !.window = WindowSeen(t, hour)]]
    /\ UNCHANGED << otherVars, cfgVars, cancelReq, runNo, last_check_times, browser, supVars >>

\* An exception raised in the iteration outside check_course's try (span
\* and log calls before it) reaches the loop's 'except Exception'.
IterationError(t) ==
    /\ AtTop(t)
    /\ LoopContinues
    /\ pc' = [pc EXCEPT ![t] = LoopErrorNext.pc]
    /\ sleepFor' = [sleepFor EXCEPT ![t] = LoopErrorNext.sleep]
    /\ chk' = [chk EXCEPT ![t] = [NoCheck EXCEPT !.ended = "error"]]
    /\ UNCHANGED << otherVars, cfgVars, cancelReq, runNo, last_check_times, browser, supVars >>

\* check_course reaches its end on the normal path: the last check time is
\* written, and the loop goes to its interval sleep.
CompleteCheck(t, c) ==
    /\ chk' = [chk EXCEPT ![t] = [c EXCEPT !.ended = "normal"]]
    /\ last_check_times' =
          [last_check_times EXCEPT ![courses[t].id] = << t, runNo[t] >>]
    /\ pc' = [pc EXCEPT ![t] = "sleep"]
    /\ sleepFor' = [sleepFor EXCEPT ![t] = Interval(t)]

\* A step of check_course raised: when check_course catches it the check
\* ends there and the loop sleeps its interval; otherwise the exception
\* reaches the loop's handler.
FailCheck(t, c, step) ==
    /\ chk' = [chk EXCEPT ![t] = [c EXCEPT !.ended = "failed"]]
    /\ UNCHANGED last_check_times
    /\ IF check_course_catches(step)
       THEN /\ pc' = [pc EXCEPT ![t] = "sleep"]
            /\ sleepFor' = [sleepFor EXCEPT ![t] = Interval(t)]
       ELSE /\ pc' = [pc EXCEPT ![t] = LoopErrorNext.pc]
            /\ sleepFor' = [sleepFor EXCEPT ![t] = LoopErrorNext.sleep]

\* A check that goes on to the analysis whatever scrape_page did.
AfterFetchAlwaysAnalyze(ok) == "analyze"

\* What follows scrape_page: analysis after a result, the except clause
\* after a failure.
AfterFetch(ok) == IF ok THEN "analyze" ELSE "abort"

\* scrape_page returns or raises.
FetchReturns(t, ok) ==
    /\ pc[t] = "fetch" /\ ~cancelReq[t]
    /\ LET c == [chk[t] EXCEPT !.fetch = IF ok THEN "ok" ELSE "failed"]
       IN IF AfterFetch(ok) = "analyze"
          THEN /\ pc' = [pc EXCEPT ![t] = "analyze"]
               /\ chk' = [chk EXCEPT ![t] = [c EXCEPT !.analysis = "called"]]
               /\ UNCHANGED << sleepFor, last_check_times >>
          ELSE FailCheck(t, c, "fetch")
    /\ UNCHANGED << otherVars, cfgVars, cancelReq, runNo, browser, supVars >>

\* check_availability returns: the agent's answer or the synthesized result
\* of a failed analysis.  A met condition sends the alert; anything else
\* completes the check.
AnalysisReturns(t, outcome) ==
    /\ pc[t] = "analyze" /\ ~cancelReq[t]
    /\ LET availability == check_availability(outcome)
           c == [chk[t] EXCEPT !.analysis =
                    IF availability.failed THEN "failed"
                    ELSE IF availability.is_available THEN "available"
                    ELSE "unavailable"]
       IN IF ShouldNotify(availability)
          THEN /\ pc' = [pc EXCEPT ![t] = "notify"]
               /\ chk' = [chk EXCEPT ![t] = [c EXCEPT !.notify = "called"]]
               /\ UNCHANGED << sleepFor, last_check_times >>
          ELSE CompleteCheck(t, c)
    /\ UNCHANGED << otherVars, cfgVars, cancelReq, runNo, browser, supVars >>

\* send_availability_alert returns an outcome (delivered or not), or the
\* call or the use of its result raises.
NotifyReturns(t, res) ==
    /\ pc[t] = "notify" /\ ~cancelReq[t]
    /\ LET c == [chk[t] EXCEPT !.notify = res]
       IN IF res = "raised"
          THEN FailCheck(t, c, "notify")
          ELSE CompleteCheck(t, c)
    /\ UNCHANGED << otherVars, cfgVars, cancelReq, runNo, browser, supVars >>

\* CancelledError is delivered at the task's await.  Inside the loop's try
\* it is caught and the loop breaks; in the error handler's sleep, or
\* before the task's first step, the task ends cancelled.
CancelDeliver(t) ==
    /\ cancelReq[t] /\ ~Done(t)
    /\ pc' = [pc EXCEPT ![t] =
               IF pc[t] \in {"start", "backoff"} THEN "cancelled" ELSE "done"]
    /\ cancelReq' = [cancelReq EXCEPT ![t] = FALSE]
    /\ chk' = [chk EXCEPT ![t] = NoCheck]
    /\ UNCHANGED << otherVars, cfgVars, runNo, sleepFor, last_check_times, browser, supVars >>

\* ------------------------------------------------------ the specification
Next ==
    \/ InitializeOk
    \/ \E b \in {"none", "open"} : InitializeFail(b)
    \/ RunLoadFails
    \/ RunNoCourses
    \/ RunStartTasks
    \/ GatherDone
    \/ \E w \in Callers : CleanupCancel(w)
    \/ \E w \in Callers : CleanupAwaited(w)
    \/ \E w \in Callers : CleanupClose(w)
    \/ \E w \in Callers : CleanupClosed(w)
    \/ Signal
    \/ LifespanShutdown
    \/ LifespanAwaited
    \/ \E t \in Tasks : LoopExit(t)
    \/ \E t \in Tasks, hour \in Hours : CheckStart(t, hour)
    \/ \E t \in Tasks, hour \in Hours : WindowClosed(t, hour)
    \/ \E t \in Tasks : IterationError(t)
    \/ \E t \in Tasks, ok \in BOOLEAN : FetchReturns(t, ok)
    \/ \E t \in Tasks, outcome \in {"available", "unavailable", "raise"} :
          AnalysisReturns(t, outcome)
    \/ \E t \in Tasks, res \in {"sent", "failed", "raised"} : NotifyReturns(t, res)
    \/ \E t \in Tasks : CancelDeliver(t)

Spec == Init /\ [][Next]_vars

\* What the event loop and the collaborators guarantee: a step that stays
\* possible is taken.  A sleep that is due returns, an awaited call returns
\* or raises, a pending CancelledError is delivered, and start() and
\* lifespan() go on through gather and cleanup().  The signal, the lifespan
\* shutdown and the start of further checks are under no such obligation.
LoopFairness(t) ==
    /\ WF_vars(t \in Tasks /\ LoopExit(t))
    /\ WF_vars(t \in Tasks /\ \E ok \in BOOLEAN : FetchReturns(t, ok))
    /\ WF_vars(t \in Tasks /\ \E outcome \in {"available", "unavailable", "raise"} :
                                 AnalysisReturns(t, outcome))
    /\ WF_vars(t \in Tasks /\ \E res \in {"sent", "failed", "raised"} :
                                 NotifyReturns(t, res))
    /\ WF_vars(t \in Tasks /\ CancelDeliver(t))

Fairness ==
    /\ WF_vars(GatherDone)
    /\ WF_vars(LifespanAwaited)
    /\ \A w \in Callers :
          /\ WF_vars(CleanupCancel(w))
          /\ WF_vars(CleanupAwaited(w))
          /\ WF_vars(CleanupClose(w))
          /\ WF_vars(CleanupClosed(w))
    /\ \A t \in 1..MaxTargets : LoopFairness(t)

\* Progress is examined for the files with at most one entry per id in
\* number: one loop, two loops, or two loops sharing an id.
LiveInit == Init /\ Len(config.targets) <= Cardinality(Ids)

LiveSpec == LiveInit /\ [][Next]_vars /\ Fairness

\* ======================================================= the alert fan-out
\* NotificationService.send_availability_alert and send_sms.  One send_sms
\* coroutine per recipient runs as its own task under asyncio.gather; a
\* task changes state only at its own steps.
PhoneBook == [i \in 1..(MaxRecipients + 1) |-> i]
Senders == DOMAIN spc
ErrorKinds == {"twilio", "other"}     \* TwilioRestException / any other Exception
NoResult == [success |-> FALSE, recipient |-> 0, error |-> NoError]
Finished(i) == spc[i] \in {"returned", "raised"}

\* A call of send_availability_alert with up to MaxRecipients recipients;
\* send_sms runs with max_retries attempts.
NotifyInit ==
    /\ \E n \in 0..MaxRecipients : recipients = SubSeq(PhoneBook, 1, n)
    /\ max_retries \in 1..MaxRetries
    /\ fpc = "called"
    /\ spc = [i \in 1..Len(recipients) |-> "created"]
    /\ attempt = [i \in 1..Len(recipients) |-> 0]
    /\ calls = [i \in 1..Len(recipients) |-> 0]
    /\ fails = [i \in 1..Len(recipients) |-> 0]
    /\ last_error = [i \in 1..Len(recipients) |-> NoError]
    /\ waits = [i \in 1..Len(recipients) |-> <<>>]
    /\ send_result = [i \in 1..Len(recipients) |-> NoResult]
    /\ notification_results = <<>>
    /\ config = [has_targets |-> FALSE, targets |-> <<>>]
    /\ courses = <<>>
    /\ course_tasks = [i \in Ids |-> 0]
    /\ pc = <<>>
    /\ cancelReq = <<>>
    /\ chk = <<>>
    /\ runNo = <<>>
    /\ sleepFor = <<>>
    /\ running = FALSE
    /\ last_check_times = [i \in Ids |-> NoStamp]
    /\ scraper = FALSE
    /\ browser = "none"
    /\ closes = 0
    /\ mpc = "initialize"
    /\ fatal = FALSE
    /\ cpos = [w \in Callers |-> 0]
    /\ cwait = [w \in Callers |-> FALSE]
    /\ lpc = "serving"
    /\ WindowIdle
    /\ ExtraIdle

\* The tasks are created and handed to asyncio.gather.
Dispatch ==
    /\ fpc = "called"
    /\ fpc' = "gather"
    /\ UNCHANGED << recipients, max_retries, spc, attempt, calls, fails,
                    last_error, waits, send_result, notification_results,
                    wvars, xvars, vars >>

\* Sends awaited one after the other: a send starts when the sends before
\* it have finished.
SendStartableInTurn(i) ==
    fpc = "gather" /\ spc[i] = "created" /\ \A j \in 1..(i - 1) : Finished(j)

\* gather schedules every coroutine: each can take its first step.
SendStartable(i) == fpc = "gather" /\ spc[i] = "created"

\* send_sms enters its loop and makes the first call of the channel.
SendStart(i) ==
    /\ SendStartable(i)
    /\ spc' = [spc EXCEPT ![i] = "sending"]
    /\ attempt' = [attempt EXCEPT ![i] = 1]
    /\ calls' = [calls EXCEPT ![i] = @ + 1]
    /\ UNCHANGED << recipients, max_retries, fpc, fails, last_error, waits,
                    send_result, notification_results, wvars, xvars, vars >>

\* send_sms raises outside its try (before the loop): the exception is the
\* task's result.
SendRaises(i) ==
    /\ SendStartable(i)
    /\ spc' = [spc EXCEPT ![i] = "raised"]
    /\ UNCHANGED << recipients, max_retries, fpc, attempt, calls, fails,
                    last_error, waits, send_result, notification_results,
                    wvars, xvars, vars >>

\* A 2 ** (attempt - 1) backoff.
wait_time_from_one(a) == 2 ^ (a - 1)

\* wait_time = 2 ** attempt
wait_time(a) == 2 ^ a

\* One retry budget for all recipients of the alert.
AttemptsLeftShared(i) == SumTo(calls, Len(calls)) < max_retries

\* A loop that gives up one attempt early.
AttemptsLeftShort(i) == attempt[i] + 1 < max_retries

\* 'if attempt < max_retries': another attempt follows the failed one.
AttemptsLeft(i) == attempt[i] < max_retries

\* Only the channel's own exception is handled.
CaughtTwilioOnly(kind) == kind = "twilio"

\* 'except TwilioRestException' and 'except Exception' around the call.
Caught(kind) == kind \in ErrorKinds

\* A success that does not leave the loop.
SendOkRetries == "backoff"

\* 'return NotificationResult(success=True, ...)' inside the loop.
SendOkNext == "returned"

\* The channel call of the current attempt returns.
AttemptReturns(i) ==
    /\ spc[i] = "sending"
    /\ send_result' = [send_result EXCEPT ![i] =
           [success |-> TRUE, recipient |-> recipients[i], error |-> NoError]]
    /\ spc' = [spc EXCEPT ![i] = SendOkNext]
    /\ UNCHANGED << recipients, max_retries, fpc, attempt, calls, fails,
                    last_error, waits, notification_results, wvars, xvars, vars >>

\* The channel call of the current attempt raises: the handler sleeps
\* wait_time and the loop goes on, or, after the last attempt, returns the
\* failure result with this exception's text.
AttemptRaises(i, kind) ==
    /\ spc[i] = "sending"
    /\ IF ~Caught(kind)
       THEN /\ spc' = [spc EXCEPT ![i] = "raised"]
            /\ UNCHANGED << fails, last_error, waits, send_result >>
       ELSE /\ fails' = [fails EXCEPT ![i] = @ + 1]
            /\ last_error' = [last_error EXCEPT ![i] = << kind, attempt[i] >>]
            /\ IF AttemptsLeft(i)
               THEN /\ waits' = [waits EXCEPT ![i] = Append(@, wait_time(attempt[i]))]
                    /\ spc' = [spc EXCEPT ![i] = "backoff"]
                    /\ UNCHANGED send_result
               ELSE /\ send_result' = [send_result EXCEPT ![i] =
                           [success |-> FALSE, recipient |-> recipients[i],
                            error |-> << kind, attempt[i] >>]]
                    /\ spc' = [spc EXCEPT ![i] = "returned"]
                    /\ UNCHANGED waits
    /\ UNCHANGED << recipients, max_retries, fpc, attempt, calls,
                    notification_results, wvars, xvars, vars >>

\* asyncio.sleep(wait_time) returns: the next iteration calls the channel.
BackoffDone(i) ==
    /\ spc[i] = "backoff"
    /\ spc' = [spc EXCEPT ![i] = "sending"]
    /\ attempt' = [attempt EXCEPT ![i] = @ + 1]
    /\ calls' = [calls EXCEPT ![i] = @ + 1]
    /\ UNCHANGED << recipients, max_retries, fpc, fails, last_error, waits,
                    send_result, notification_results, wvars, xvars, vars >>

\* A result list that leaves out the sends that raised.
AppendsReturnedOnly(i) == spc[i] = "returned"

\* 'for i, result in enumerate(results)': both branches append.
AppendsResult(i) == TRUE

\* The entry for results[i]: an exception becomes a failure result for
\* recipients[i], a NotificationResult is taken as it is.
ResultFor(i) ==
    IF spc[i] = "raised"
    THEN [success |-> FALSE, recipient |-> recipients[i], error |-> << "raised", 0 >>]
    ELSE send_result[i]

\* gather(*tasks, return_exceptions=True) returns once every task is done;
\* the results are processed in order and returned.
Gathered ==
    /\ fpc = "gather"
    /\ \A i \in Senders : Finished(i)
    /\ LET kept == SelectSeq([i \in 1..Len(recipients) |-> i], AppendsResult)
       IN notification_results' = [k \in 1..Len(kept) |-> ResultFor(kept[k])]
    /\ fpc' = "done"
    /\ UNCHANGED << recipients, max_retries, spc, attempt, calls, fails,
                    last_error, waits, send_result, wvars, xvars, vars >>

NotifyNext ==
    \/ Dispatch
    \/ \E i \in Senders : SendStart(i)
    \/ \E i \in Senders : SendRaises(i)
    \/ \E i \in Senders : AttemptReturns(i)
    \/ \E i \in Senders, kind \in ErrorKinds : AttemptRaises(i, kind)
    \/ \E i \in Senders : BackoffDone(i)
    \/ Gathered

NotifySpec == NotifyInit /\ [][NotifyNext]_nvars

\* ===================================================== the window function
\* is_within_check_window and the loading of one entry, applied to every
\* pair of bounds (set or not), every hour of the day, and a timezone that
\* resolves or does not.
DayHours == 0..23
WindowTargets ==
    { Target("a", TRUE, TRUE, start, end, tz, DefaultInterval) :
          start \in DayHours \cup {None}, end \in DayHours \cup {None},
          tz \in BOOLEAN }

WindowInit ==
    /\ win_target \in WindowTargets
    /\ win_hour \in DayHours
    /\ win_loaded = "none"
    /\ win_result = "none"
    /\ NotifyIdle
    /\ config = [has_targets |-> FALSE, targets |-> <<>>]
    /\ courses = <<>>
    /\ course_tasks = [i \in Ids |-> 0]
    /\ pc = <<>>
    /\ cancelReq = <<>>
    /\ chk = <<>>
    /\ runNo = <<>>
    /\ sleepFor = <<>>
    /\ running = FALSE
    /\ last_check_times = [i \in Ids |-> NoStamp]
    /\ scraper = FALSE
    /\ browser = "none"
    /\ closes = 0
    /\ mpc = "initialize"
    /\ fatal = FALSE
    /\ cpos = [w \in Callers |-> 0]
    /\ cwait = [w \in Callers |-> FALSE]
    /\ lpc = "serving"
    /\ ExtraIdle

\* load_course_configs meets the entry: it becomes a course, or it is
\* logged and passed over.
WindowLoad ==
    /\ win_loaded = "none"
    /\ win_loaded' = IF LoadKeep(win_target) THEN "loaded" ELSE "skipped"
    /\ UNCHANGED << win_target, win_hour, win_result, nvars, xvars, vars >>

\* is_within_check_window is called at the hour win_hour.
WindowEvaluate ==
    /\ win_result = "none"
    /\ win_result' = IF is_within_check_window(win_target, win_hour)
                     THEN "open" ELSE "closed"
    /\ UNCHANGED << win_target, win_hour, win_loaded, nvars, xvars, vars >>

WindowNext ==
    \/ WindowLoad
    \/ WindowEvaluate

WindowSpec == WindowInit /\ [][WindowNext]_wvars

\* ================================================= the bounds of one entry
\* The supervisor and its loops at rest, as they are while a collaborator
\* is examined on its own.
MainIdle ==
    /\ config = [has_targets |-> FALSE, targets |-> <<>>]
    /\ courses = <<>>
    /\ course_tasks = [i \in Ids |-> 0]
    /\ pc = <<>>
    /\ cancelReq = <<>>
    /\ chk = <<>>
    /\ runNo = <<>>
    /\ sleepFor = <<>>
    /\ running = FALSE
    /\ last_check_times = [i \in Ids |-> NoStamp]
    /\ scraper = FALSE
    /\ browser = "none"
    /\ closes = 0
    /\ mpc = "initialize"
    /\ fatal = FALSE
    /\ cpos = [w \in Callers |-> 0]
    /\ cwait = [w \in Callers |-> FALSE]
    /\ lpc = "serving"

\* Entries whose interval and hours are any integers the YAML file can
\* hold: intervals below, at and above zero, hours below 0, inside 0..23,
\* above 23, and null.
EntryIntervals == {0 - 60, 0, 1, DefaultInterval}
EntryHours == {0 - 2, 0, 23, 24, None}
BoundsTargets ==
    { Target("a", enabled, instr, start, end, TRUE, interval) :
          enabled \in BOOLEAN, instr \in BOOLEAN,
          start \in EntryHours, end \in EntryHours, interval \in EntryIntervals }

BoundsInit ==
    /\ win_target \in BoundsTargets
    /\ win_hour = 8
    /\ win_loaded = "none"
    /\ win_result = "none"
    /\ NotifyIdle
    /\ MainIdle
    /\ ExtraIdle

\* load_course_configs and the window test applied to such an entry.
BoundsSpec == BoundsInit /\ [][WindowNext]_wvars

\* ==================================================== the alert's rendering
\* send_availability_alert up to the creation of the send tasks:
\* custom_message.format(course_name=..., sections=..., course_url=...)
\* with its fallback.  A template is a sequence of parts; a rendered text
\* is the sequence of what each part produced.
KnownFields == {"course_name", "sections", "course_url"}
Part(kind, name) == [kind |-> kind, name |-> name]
TemplateParts ==
    { Part("text", ""),           \* literal text
      Part("escaped", ""),        \* '{{' or '}}'
      Part("positional", ""),     \* '{}' or '{0}'
      Part("attribute", ""),      \* '{course_name.x}'
      Part("brace", ""),          \* a single '{' or '}'
      Part("bad_spec", "") }      \* '{course_name:d}'
    \cup { Part("field", n) : n \in KnownFields \cup {"unknown"} }
Templates == SeqsUpTo(TemplateParts, MaxTemplate)
Default == << "default" >>        \* _format_availability_alert(...)

\* What str.format raises at a part when only the three keyword arguments
\* are passed, all of them strings.
PartError(part) ==
    CASE part.kind = "field" /\ part.name \notin KnownFields -> "KeyError"
      [] part.kind = "positional" -> "IndexError"
      [] part.kind = "attribute" -> "AttributeError"
      [] part.kind \in {"brace", "bad_spec"} -> "ValueError"
      [] OTHER -> "none"

\* What a part that does not raise contributes to the text.
PartText(part) ==
    CASE part.kind = "text" -> "text"
      [] part.kind = "escaped" -> "{"
      [] OTHER -> part.name

\* str.format works through the template from the left: the first part
\* that fails raises, otherwise the pieces are joined.
RECURSIVE FormatFrom(_, _, _)
FormatFrom(template, k, out) ==
    IF k > Len(template) THEN [error |-> "none", text |-> out]
    ELSE IF PartError(template[k]) # "none"
         THEN [error |-> PartError(template[k]), text |-> <<>>]
         ELSE FormatFrom(template, k + 1, Append(out, PartText(template[k])))

format(template) == FormatFrom(template, 1, <<>>)

\* 'except (KeyError, ValueError)' around the format call.
RenderCaught(error) == error \in {"KeyError", "ValueError"}

RenderInit ==
    /\ custom_message \in Templates
    /\ message = <<>>
    /\ \E n \in 0..MaxRecipients : recipients = SubSeq(PhoneBook, 1, n)
    /\ max_retries = DefaultMaxRetries
    /\ fpc = "render"
    /\ spc = [i \in 1..Len(recipients) |-> "created"]
    /\ attempt = [i \in 1..Len(recipients) |-> 0]
    /\ calls = [i \in 1..Len(recipients) |-> 0]
    /\ fails = [i \in 1..Len(recipients) |-> 0]
    /\ last_error = [i \in 1..Len(recipients) |-> NoError]
    /\ waits = [i \in 1..Len(recipients) |-> <<>>]
    /\ send_result = [i \in 1..Len(recipients) |-> NoResult]
    /\ notification_results = <<>>
    /\ MainIdle
    /\ WindowIdle
    /\ ScrapeIdle
    /\ HealthIdle

\* 'if custom_message:' with the format call and its handler, else the
\* default format; an exception the handler does not name leaves
\* send_availability_alert.
Render ==
    /\ fpc = "render"
    /\ IF custom_message = <<>>
       THEN message' = Default /\ fpc' = "called"
       ELSE LET res == format(custom_message)
            IN IF res.error = "none"
               THEN message' = res.text /\ fpc' = "called"
               ELSE IF RenderCaught(res.error)
                    THEN message' = Default /\ fpc' = "called"
                    ELSE message' = message /\ fpc' = "raised"
    /\ UNCHANGED << custom_message, recipients, max_retries, spc, attempt, calls,
                    fails, last_error, waits, send_result, notification_results,
                    wvars, svars, hvars, vars >>

RenderNext ==
    \/ Render
    \/ Dispatch

RenderSpec == RenderInit /\ [][RenderNext]_<< rvars, nvars >>

\* ======================================================= the page scraper
\* One check's call of ScraperService.scrape_page (check_course calls it
\* with the default max_retries).  Every await of an attempt either returns
\* or raises.
scrapeRest == << nvars, wvars, rvars, hvars, vars >>

ScrapeInit ==
    /\ s_max_retries \in 1..MaxRetries
    /\ s_check = "start"
    /\ s_calls = 0
    /\ s_pc = "idle"
    /\ s_attempt = 0
    /\ s_fails = 0
    /\ s_pending = "none"
    /\ s_error = NoError
    /\ s_result = 0
    /\ s_waits = <<>>
    /\ s_contexts = 0
    /\ s_pages = 0
    /\ MainIdle
    /\ NotifyIdle
    /\ WindowIdle
    /\ RenderIdle
    /\ HealthIdle

\* check_course: 'scrape_result = await self.scraper.scrape_page(course.url)'.
\* scrape_page launches the browser when none is set, which may fail, and
\* enters its loop with attempt 1.
ScrapeCall(launched) ==
    /\ s_check = "start"
    /\ s_check' = "fetch"
    /\ s_calls' = s_calls + 1
    /\ IF launched
       THEN s_pc' = "new_context" /\ s_attempt' = 1 /\ UNCHANGED s_error
       ELSE s_pc' = "raised" /\ s_error' = << "initialize", 0 >> /\ UNCHANGED s_attempt
    /\ UNCHANGED << s_max_retries, s_fails, s_pending, s_result, s_waits,
                    s_contexts, s_pages, scrapeRest >>

\* wait_time = 2**attempt
scrape_wait_time(a) == 2 ^ a

\* A loop that gives up one attempt early.
ScrapeAttemptsLeftShort == s_attempt + 1 < s_max_retries

\* 'if attempt < max_retries'
ScrapeAttemptsLeft == s_attempt < s_max_retries

\* 'except Exception as e' of the attempt: sleep wait_time and go round
\* again, or, after the last attempt, 'raise'.
ScrapeHandler(step) ==
    /\ s_error' = << step, s_attempt >>
    /\ s_fails' = s_fails + 1
    /\ s_pending' = "none"
    /\ IF ScrapeAttemptsLeft
       THEN /\ s_pc' = "backoff"
            /\ s_waits' = Append(s_waits, scrape_wait_time(s_attempt))
       ELSE /\ s_pc' = "raised"
            /\ UNCHANGED s_waits

\* 'context = await self.browser.new_context(...)'
NewContext(ok) ==
    /\ s_pc = "new_context"
    /\ IF ok
       THEN /\ s_contexts' = s_contexts + 1
            /\ s_pc' = "route"
            /\ UNCHANGED << s_error, s_fails, s_pending, s_waits >>
       ELSE /\ ScrapeHandler("new_context")
            /\ UNCHANGED s_contexts
    /\ UNCHANGED << s_max_retries, s_check, s_calls, s_attempt, s_result, s_pages,
                    scrapeRest >>

\* 'await context.route(...)', still outside the inner try.
Route(ok) ==
    /\ s_pc = "route"
    /\ IF ok
       THEN /\ s_pc' = "new_page"
            /\ UNCHANGED << s_error, s_fails, s_pending, s_waits >>
       ELSE ScrapeHandler("route")
    /\ UNCHANGED << s_max_retries, s_check, s_calls, s_attempt, s_result,
                    s_contexts, s_pages, scrapeRest >>

\* 'page = await context.new_page()', the last step outside the inner try.
NewPage(ok) ==
    /\ s_pc = "new_page"
    /\ IF ok
       THEN /\ s_pages' = s_pages + 1
            /\ s_pc' = "goto"
            /\ UNCHANGED << s_error, s_fails, s_pending, s_waits >>
       ELSE /\ ScrapeHandler("new_page")
            /\ UNCHANGED s_pages
    /\ UNCHANGED << s_max_retries, s_check, s_calls, s_attempt, s_result,
                    s_contexts, scrapeRest >>

\* The awaits of the inner try whose exception is not handled there:
\* page.goto, page.inner_text, page.title.  The last one is followed by the
\* 'return'; an exception and the return both go through 'finally'.
StepAfter(step) ==
    CASE step = "goto" -> "load_state"
      [] step = "load_state" -> "selector"
      [] step = "selector" -> "inner_text"
      [] step = "inner_text" -> "title"
      [] OTHER -> "page_close"

PageStep(ok) ==
    /\ s_pc \in {"goto", "inner_text", "title"}
    /\ IF ok
       THEN /\ s_pc' = StepAfter(s_pc)
            /\ s_pending' = IF s_pc = "title" THEN "return" ELSE s_pending
            /\ UNCHANGED s_error
       ELSE /\ s_pc' = "page_close"
            /\ s_pending' = "raise"
            /\ s_error' = << s_pc, s_attempt >>
    /\ UNCHANGED << s_max_retries, s_check, s_calls, s_attempt, s_fails, s_result,
                    s_waits, s_contexts, s_pages, scrapeRest >>

\* page.wait_for_load_state and page.wait_for_selector sit in their own
\* try: an exception is logged or passed over and the attempt goes on.
WaitStep(ok) ==
    /\ s_pc \in {"load_state", "selector"}
    /\ s_pc' = StepAfter(s_pc)
    /\ UNCHANGED << s_max_retries, s_check, s_calls, s_attempt, s_fails, s_pending,
                    s_error, s_result, s_waits, s_contexts, s_pages, scrapeRest >>

\* finally: 'await page.close()'; when it raises, the rest of the block is
\* not run and its exception replaces the return value or the exception
\* in flight.
PageClose(ok) ==
    /\ s_pc = "page_close"
    /\ IF ok
       THEN /\ s_pages' = s_pages - 1
            /\ s_pc' = "context_close"
            /\ UNCHANGED << s_error, s_fails, s_pending, s_waits >>
       ELSE /\ ScrapeHandler("page.close")
            /\ UNCHANGED s_pages
    /\ UNCHANGED << s_max_retries, s_check, s_calls, s_attempt, s_result,
                    s_contexts, scrapeRest >>

\* finally: 'await context.close()', after which the return takes place or
\* the exception in flight reaches the handler.
ContextClose(ok) ==
    /\ s_pc = "context_close"
    /\ IF ~ok
       THEN /\ ScrapeHandler("context.close")
            /\ UNCHANGED << s_contexts, s_result >>
       ELSE /\ s_contexts' = s_contexts - 1
            /\ IF s_pending = "return"
               THEN /\ s_pc' = "returned"
                    /\ s_result' = s_attempt
                    /\ s_pending' = "none"
                    /\ UNCHANGED << s_error, s_fails, s_waits >>
               ELSE /\ ScrapeHandler(s_error[1])
                    /\ UNCHANGED s_result
    /\ UNCHANGED << s_max_retries, s_check, s_calls, s_attempt, s_pages, scrapeRest >>

\* asyncio.sleep(wait_time) returns: the next attempt begins.
ScrapeBackoffDone ==
    /\ s_pc = "backoff"
    /\ s_pc' = "new_context"
    /\ s_attempt' = s_attempt + 1
    /\ UNCHANGED << s_max_retries, s_check, s_calls, s_fails, s_pending, s_error,
                    s_result, s_waits, s_contexts, s_pages, scrapeRest >>

\* check_course after the call: the result goes to the analysis, an
\* exception to check_course's 'except Exception', which ends the check.
CheckGoesOn ==
    /\ s_check = "fetch"
    /\ s_pc \in {"returned", "raised"}
    /\ s_check' = IF s_pc = "returned" THEN "analyze" ELSE "failed"
    /\ UNCHANGED << s_max_retries, s_calls, s_pc, s_attempt, s_fails, s_pending,
                    s_error, s_result, s_waits, s_contexts, s_pages, scrapeRest >>

ScrapeNext ==
    \/ \E launched \in BOOLEAN : ScrapeCall(launched)
    \/ \E ok \in BOOLEAN : NewContext(ok)
    \/ \E ok \in BOOLEAN : Route(ok)
    \/ \E ok \in BOOLEAN : NewPage(ok)
    \/ \E ok \in BOOLEAN : PageStep(ok)
    \/ \E ok \in BOOLEAN : WaitStep(ok)
    \/ \E ok \in BOOLEAN : PageClose(ok)
    \/ \E ok \in BOOLEAN : ContextClose(ok)
    \/ ScrapeBackoffDone
    \/ CheckGoesOn

ScrapeSpec == ScrapeInit /\ [][ScrapeNext]_svars

\* ==================================================== the /health endpoint
\* The web service from the import of the module on: lifespan() creates the
\* crawler task at startup, health_check() answers a request from the
\* module's globals.  A request can be answered before the lifespan has
\* started (crawler_task is None) and while the service is serving.

\* An endpoint that calls only a failed task unhealthy.
IsHealthyUnlessFailed(task_status) == task_status # "failed"

\* 'is_healthy = task_status in ["running", "not_started"]'
IsHealthy(task_status) == task_status \in {"running", "not_started"}

\* The if / elif chain over crawler_task: None, done() with or without an
\* exception, or still running.  The task is done when start() has ended,
\* and carries an exception when start() re-raised.
TaskStatus ==
    IF lpc = "startup" THEN "not_started"
    ELSE IF mpc = "done" THEN (IF fatal THEN "failed" ELSE "completed")
    ELSE "running"

\* len(crawler_instance.last_check_times), left out of the response while
\* the map is empty.
MonitoredCourses == Cardinality({ i \in Ids : last_check_times[i] # NoStamp })

HealthResponse ==
    [code |-> IF IsHealthy(TaskStatus) THEN HTTP_200_OK
              ELSE HTTP_503_SERVICE_UNAVAILABLE,
     status |-> IF IsHealthy(TaskStatus) THEN "healthy" ELSE "unhealthy",
     background_task_status |-> TaskStatus,
     monitored_courses |-> MonitoredCourses]

\* The service before its startup, with a file of at most one entry.
HealthInit ==
    /\ config \in Configs
    /\ Len(config.targets) <= 1
    /\ courses = <<>>
    /\ course_tasks = [i \in Ids |-> 0]
    /\ pc = <<>>
    /\ cancelReq = <<>>
    /\ chk = <<>>
    /\ runNo = <<>>
    /\ sleepFor = <<>>
    /\ running = FALSE
    /\ last_check_times = [i \in Ids |-> NoStamp]
    /\ scraper = FALSE
    /\ browser = "none"
    /\ closes = 0
    /\ mpc = "initialize"
    /\ fatal = FALSE
    /\ cpos = [w \in Callers |-> 0]
    /\ cwait = [w \in Callers |-> FALSE]
    /\ lpc = "startup"
    /\ NotifyIdle
    /\ WindowIdle
    /\ ExtraIdle

\* lifespan() up to the yield: the crawler task is created.
LifespanStartup ==
    /\ lpc = "startup"
    /\ lpc' = "serving"
    /\ UNCHANGED << otherVars, cfgVars, loopVars, running, last_check_times, scraper,
                    browser, closes, mpc, fatal, cpos, cwait >>

\* GET /health is answered.
HealthCheck ==
    /\ lpc \in {"startup", "serving"}
    /\ health' = HealthResponse
    /\ UNCHANGED << nvars, wvars, rvars, svars, vars >>

\* The crawler task takes its steps once it has been created.
CrawlerStep == lpc # "startup" /\ Next

HealthNext ==
    \/ LifespanStartup
    \/ HealthCheck
    \/ CrawlerStep

HealthSpec == HealthInit /\ [][HealthNext]_<< vars, hvars >>

\* ============================================================ properties
\* A monitoring loop that has run and not ended: it is in a check, in its
\* interval sleep or in its error backoff.
Alive(t) == pc[t] \in {"fetch", "analyze", "notify", "sleep", "backoff"}

\* C1: the browser is closed by cleanup() only after every monitoring loop
\* that was started has terminated: in no state has browser.close() been
\* performed while a started loop is still alive.
C1_CloseAfterAllLoopsEnded ==
    closes > 0 => \A t \in Tasks : ~Alive(t)

\* C2: at most one check (fetch / analyse / notify cycle) is in progress
\* for any given target id.
C2_OneCheckPerTargetId ==
    \A t, u \in Tasks :
        (InCheck(t) /\ InCheck(u) /\ courses[t].id = courses[u].id) => t = u

C3_Step(t) ==
    /\ (pc[t] = "sleep" /\ (~running \/ cancelReq[t])) =>
          /\ pc'[t] \in {"sleep", "done"}
          /\ \A u \in Tasks : courses[u].id = courses[t].id => runNo'[u] = runNo[u]
          /\ ~running => ~running'
          /\ (cancelReq[t] /\ pc'[t] = "sleep") => cancelReq'[t]
    /\ Done(t) => (pc'[t] = pc[t] /\ runNo'[t] = runNo[t])

\* C3: once shutdown has been requested (the running flag cleared, or the
\* task cancelled) while a loop is in its interval sleep, that loop's next
\* move is to stop: no further check is started for its target, the flag
\* stays cleared, the pending cancellation stays pending, and a stopped
\* loop stays stopped.
C3_NoCheckAfterShutdownInSleep == [][\A t \in Tasks : C3_Step(t)]_vars

\* Witness of C3: a loop that had done a check ended out of its interval
\* sleep although the check budget allowed another check.
C3_Witness ==
    \E t \in Tasks :
        /\ pc[t] = "done" /\ sleepFor[t] = Interval(t)
        /\ runNo[t] >= 1 /\ ChecksStarted < MaxChecks

\* C4: a loop reaches a terminal state only when the running flag is
\* cleared or its cancellation was requested; whatever fails, a loop whose
\* flag is set and that is not cancelled stays in the cycle.
C4_TerminatesOnlyOnShutdown ==
    [][\A t \in Tasks :
          (~Done(t) /\ pc'[t] \in Terminal) => (~running \/ cancelReq[t])]_vars

\* Witness of C4: a loop-level error has happened and the loop is alive,
\* the flag set and no cancellation pending.
C4_Witness ==
    \E t \in Tasks :
        /\ running /\ ~cancelReq[t]
        /\ pc[t] = "backoff" /\ chk[t].ended = "error"

C5_State(t) ==
    /\ chk[t].ended = "error" => (pc[t] = "backoff" /\ sleepFor[t] = ErrorBackoff)
    /\ pc[t] = "backoff" => (sleepFor[t] = ErrorBackoff /\ chk[t].ended = "error")

C5_Step(t) ==
    (pc[t] = "backoff" /\ pc'[t] # "backoff") =>
        IF running /\ ~cancelReq[t]
        THEN \/ pc'[t] = "fetch"
             \/ pc'[t] = "sleep" /\ chk'[t].ended = "skipped"
        ELSE pc'[t] \in Terminal

\* C5: an exception escaping the iteration puts the loop into a sleep of
\* exactly 60 seconds (never the interval sleep), and from that sleep the
\* loop resumes at the loop top: it evaluates the window again (check or
\* skip) while running, and stops only on shutdown or cancellation.
C5_ErrorBackoffThenLoopTop ==
    /\ [](\A t \in Tasks : C5_State(t))
    /\ [][\A t \in Tasks : C5_Step(t)]_vars

\* Witness of C5: after at least one check, an iteration failed and the
\* loop is in its 60 second backoff.
C5_Witness ==
    \E t \in Tasks :
        pc[t] = "backoff" /\ sleepFor[t] = ErrorBackoff /\ runNo[t] >= 1

\* C6: a check whose fetch failed invoked neither the analysis nor the
\* notification, ended there, and its loop is in the normal interval sleep.
C6_FetchFailureAbortsCheck ==
    \A t \in Tasks :
        chk[t].fetch = "failed" =>
            /\ chk[t].analysis = "none" /\ chk[t].notify = "none"
            /\ chk[t].ended = "failed"
            /\ pc[t] = "sleep" /\ sleepFor[t] = Interval(t)

C6_Witness == \E t \in Tasks : chk[t].fetch = "failed" /\ pc[t] = "sleep"

\* C7: a check whose analysis failed dispatched no notification and ended
\* on the normal completion path, its loop in the interval sleep (no
\* exception reached the loop).
C7_AnalysisFailureIsNotMet ==
    \A t \in Tasks :
        chk[t].analysis = "failed" =>
            /\ chk[t].fetch = "ok" /\ chk[t].notify = "none"
            /\ chk[t].ended = "normal"
            /\ pc[t] = "sleep" /\ sleepFor[t] = Interval(t)

C7_Witness == \E t \in Tasks : chk[t].analysis = "failed" /\ chk[t].ended = "normal"

C8_State(t) ==
    (chk[t].notify # "none") <=> (chk[t].fetch = "ok" /\ chk[t].analysis = "available")

C8_Step(t) ==
    /\ (pc[t] = "notify" /\ pc'[t] # "notify") => pc'[t] \in {"sleep", "done"}
    /\ (pc[t] # "notify" /\ pc'[t] = "notify") => pc[t] = "analyze"

\* C8: in every check, the first or a later one, the dispatcher has been
\* invoked exactly when the fetch succeeded and the analysis said the
\* condition is met; the check ends when the dispatcher returns, so it is
\* invoked at most once per check.
C8_NotifyIffConditionMet ==
    /\ [](\A t \in Tasks : C8_State(t))
    /\ [][\A t \in Tasks : C8_Step(t)]_vars

\* Witness of C8: the dispatcher is invoked in a loop's second check.
C8_Witness ==
    \E t \in Tasks : runNo[t] >= 2 /\ pc[t] = "notify" /\ chk[t].notify = "called"

\* C9: every run of a check that ended, whichever step it reached, has
\* written its completion time as the target's last check time.
C9_LastCheckAlwaysRecorded ==
    \A t \in Tasks :
        chk[t].ended \in {"normal", "failed"} =>
            last_check_times[courses[t].id] = << t, runNo[t] >>

\* C10: a failure of the fetch, the analysis or the notification step never
\* reaches the loop: after it the loop is in its interval sleep, not in the
\* 60 second error backoff.
C10_CheckContainsFailures ==
    \A t \in Tasks :
        (chk[t].fetch = "failed" \/ chk[t].analysis = "failed" \/ chk[t].notify = "raised") =>
            /\ pc[t] = "sleep" /\ sleepFor[t] = Interval(t)
            /\ chk[t].ended # "error"

C10_Witness == \E t \in Tasks : chk[t].notify = "raised" /\ pc[t] = "sleep"

\* ------------------------------------------- properties of the alert fan-out
\* A send that used up its attempts: every call of the channel raised.
Exhausted(i) == spc[i] = "returned" /\ fails[i] = calls[i]

\* C11: send_availability_alert returns exactly one outcome per input
\* recipient, in input order: the returned list has the length of the
\* recipients list and its i-th outcome carries the i-th recipient, whatever
\* mix of successes, exhausted retries and raised errors the sends had.
C11_OneOutcomePerRecipientInOrder ==
    fpc = "done" =>
        /\ Len(notification_results) = Len(recipients)
        /\ \A i \in 1..Len(recipients) :
              notification_results[i].recipient = recipients[i]

C11_Witness ==
    /\ fpc = "done"
    /\ \E i, j, k \in Senders :
          /\ spc[i] = "raised"
          /\ Exhausted(j)
          /\ send_result[k].success
    /\ Len(notification_results) = 3

\* C12: the outcomes of different recipients are independent: whether the
\* outcome of recipient i is a success is decided by i's own attempts alone
\* (one of its calls returned, or all max_retries of its calls raised),
\* and the returned list reports exactly that for each recipient.
C12_OutcomeFromOwnAttemptsOnly ==
    /\ \A i \in Senders : spc[i] = "returned" =>
          /\ send_result[i].success <=> fails[i] < calls[i]
          /\ ~send_result[i].success <=> fails[i] = max_retries
    /\ fpc = "done" => \A i \in Senders :
          notification_results[i].success <=> fails[i] < calls[i]

C12_Witness ==
    /\ fpc = "done"
    /\ \E i, j \in Senders :
          /\ i < j
          /\ Exhausted(i) /\ ~notification_results[i].success
          /\ notification_results[j].success /\ fails[j] = 0

\* C13: all recipients are dispatched at once: while the fan-out is in its
\* gather, the first attempt of any recipient not yet started can be taken
\* whatever the other recipients are doing, and the fan-out completes
\* exactly when every recipient's send has finished.
C13_AllDispatchedAtOnce ==
    /\ \A i \in Senders :
          (fpc = "gather" /\ spc[i] = "created") => ENABLED SendStart(i)
    /\ fpc = "done" => \A i \in Senders : Finished(i)
    /\ (fpc = "gather" /\ \A i \in Senders : Finished(i)) => ENABLED Gathered

C13_Witness ==
    \E i, j \in Senders :
        /\ i < j
        /\ spc[i] = "backoff"
        /\ spc[j] = "sending"

\* C14: a send whose every attempt fails calls the channel exactly
\* max_retries times and returns a failure outcome whose error is that of
\* the last, max_retries-th, attempt; no send calls the channel more often.
C14_ExhaustionAfterExactlyMaxRetries ==
    \A i \in Senders :
        /\ calls[i] <= max_retries
        /\ Exhausted(i) =>
              /\ calls[i] = max_retries
              /\ ~send_result[i].success
              /\ send_result[i].error[1] \in ErrorKinds
              /\ send_result[i].error[2] = max_retries

C14_Witness ==
    \E i \in Senders :
        Exhausted(i) /\ max_retries = 3 /\ send_result[i].error = << "twilio", 3 >>

\* C15: a send whose first j attempts fail and whose next attempt succeeds
\* (0 <= j < max_retries) has called the channel exactly j + 1 times and
\* returned the success at once: no call and no backoff wait follows it.
C15_SuccessStopsRetrying ==
    \A i \in Senders : send_result[i].success =>
        /\ spc[i] = "returned"
        /\ fails[i] < max_retries
        /\ calls[i] = fails[i] + 1
        /\ Len(waits[i]) = fails[i]

C15_Witness ==
    \E i, j \in Senders :
        /\ send_result[i].success /\ fails[i] = 2 /\ calls[i] = 3
        /\ send_result[j].success /\ fails[j] = 0 /\ calls[j] = 1

\* C16: the wait between attempt k and attempt k + 1 is 2^k seconds and no
\* wait follows the final attempt; with max_retries = 3 an exhausted send
\* has waited 2 and then 4 seconds, 6 in all.
C16_ExponentialBackoff ==
    \A i \in Senders :
        /\ \A k \in 1..Len(waits[i]) : waits[i][k] = 2 ^ k
        /\ Len(waits[i]) <= max_retries - 1
        /\ Exhausted(i) => Len(waits[i]) = max_retries - 1
        /\ (Exhausted(i) /\ max_retries = DefaultMaxRetries) =>
              /\ waits[i] = << 2, 4 >>
              /\ SumTo(waits[i], Len(waits[i])) = 6

C16_Witness ==
    \E i \in Senders :
        Exhausted(i) /\ max_retries = DefaultMaxRetries /\ Len(waits[i]) = 2

\* C17: send_sms does not raise for an error of the channel call, be it
\* the channel's own or an unexpected one: a send that has called the
\* channel ends by returning, and after exhaustion it returns a failure
\* outcome carrying the error caught last.
C17_NeverRaisesForOperationError ==
    \A i \in Senders :
        /\ spc[i] = "raised" => calls[i] = 0
        /\ Exhausted(i) =>
              /\ ~send_result[i].success
              /\ send_result[i].error = last_error[i]
              /\ last_error[i][1] \in ErrorKinds

C17_Witness ==
    \E i, j \in Senders :
        /\ Exhausted(i) /\ send_result[i].error[1] = "other"
        /\ Exhausted(j) /\ send_result[j].error[1] = "twilio"

\* ----------------------------------------- properties of the window function
\* Both bounds are set and the timezone resolves.
WindowBounded ==
    /\ win_target.tz_ok
    /\ win_target.check_start_hour # None
    /\ win_target.check_end_hour # None

\* C18: for all start, end and hour in 0..23 is_within_check_window equals
\* the reference predicate: for start < end it is true exactly when
\* start <= hour < end, for start > end exactly when hour >= start or
\* hour < end; with start 22 and end 6 hour 23 is open, hour 6 is closed
\* and hour 5 is open.
C18_WindowMatchesReference ==
    (WindowBounded /\ win_result # "none") =>
        LET start == win_target.check_start_hour
            end == win_target.check_end_hour
        IN /\ start < end =>
                 (win_result = "open" <=> (start <= win_hour /\ win_hour < end))
           /\ start > end =>
                 (win_result = "open" <=> (win_hour >= start \/ win_hour < end))
           /\ (start = 22 /\ end = 6) =>
                 /\ win_hour = 23 => win_result = "open"
                 /\ win_hour = 6 => win_result = "closed"
                 /\ win_hour = 5 => win_result = "open"

C18_Witness ==
    /\ WindowBounded
    /\ win_target.check_start_hour = 22
    /\ win_target.check_end_hour = 6
    /\ win_hour = 6
    /\ win_result = "closed"

\* C19: when either window bound of a target is unset, the window test is
\* true for every hour and the target is checked in every loop iteration:
\* the entry is loaded as a course and its window is never closed.
C19_UnsetBoundAlwaysChecked ==
    (win_target.check_start_hour = None \/ win_target.check_end_hour = None) =>
        /\ win_result # "closed"
        /\ win_loaded # "skipped"

\* C20: a timezone that cannot be resolved fails open: for a course with
\* such a timezone the window test is true at every hour whatever the
\* bounds, no iteration of its loop skips the check as outside the window,
\* and a loop at its top with the flag set can start the check at any hour
\* (while the check budget lasts) instead of stalling.
C20_BadTimezoneFailsOpen ==
    \A t \in Tasks : ~courses[t].tz_ok =>
        /\ \A hour \in Hours : is_within_check_window(courses[t], hour)
        /\ chk[t].ended # "skipped"
        /\ (AtTop(t) /\ running /\ ChecksStarted < MaxChecks) =>
              \A hour \in Hours : ENABLED CheckStart(t, hour)

C20_Witness ==
    \E t \in Tasks :
        /\ ~courses[t].tz_ok
        /\ courses[t].check_start_hour = 22
        /\ courses[t].check_end_hour = 6
        /\ runNo[t] = 2
        /\ chk[t].ended = "normal"

\* ------------------------------------------ properties of loop and supervisor
C21_State(t) ==
    chk[t].window = "closed" =>
        /\ chk[t].fetch = "none" /\ chk[t].analysis = "none" /\ chk[t].notify = "none"
        /\ chk[t].ended = "skipped"
        /\ pc[t] = "sleep"
        /\ sleepFor[t] = courses[t].check_interval_seconds

C21_Step(t) ==
    chk'[t].window = "closed" =>
        /\ runNo'[t] = runNo[t]
        /\ \/ last_check_times'[courses[t].id] = last_check_times[courses[t].id]
           \/ last_check_times'[courses[t].id][1] # t

\* C21: an iteration that found the window closed invoked nothing of the
\* check (no fetch, no analysis, no notification), started no check and
\* wrote no last check time, and its loop is in the interval sleep of the
\* target's configured length.
C21_ClosedWindowSkipsCheck ==
    /\ [](\A t \in Tasks : C21_State(t))
    /\ [][\A t \in Tasks : C21_Step(t)]_vars

\* Witness of C21: after a check, a later iteration found the window closed.
C21_Witness ==
    \E t \in Tasks :
        chk[t].window = "closed" /\ pc[t] = "sleep" /\ runNo[t] >= 1

C22_State(t) ==
    chk[t].ended \in {"normal", "failed"} =>
        (pc[t] = "sleep" /\ sleepFor[t] = courses[t].check_interval_seconds)

C22_Step(t) ==
    /\ runNo'[t] # runNo[t] =>
          /\ pc[t] \in {"start", "sleep", "backoff"} /\ pc'[t] = "fetch"
          /\ runNo[t] >= 1 => pc[t] \in {"sleep", "backoff"}
    /\ (InCheck(t) /\ ~InCheck(t)') => pc'[t] \in {"sleep", "done"}

\* C22: for each target's loop, the end of a check puts the loop into a
\* sleep of the target's configured interval, and a check is started only
\* by a loop coming out of a sleep (or at its very first step): no two
\* checks of the loop follow each other without the interval sleep between
\* them.
C22_IntervalSleepBetweenChecks ==
    /\ [](\A t \in Tasks : C22_State(t))
    /\ [][\A t \in Tasks : C22_Step(t)]_vars

\* Witness of C22: a loop has ended its second check.
C22_Witness ==
    \E t \in Tasks :
        runNo[t] >= 2 /\ chk[t].ended = "normal" /\ pc[t] = "sleep"

\* C23: shutdown requested while a loop is in its interval sleep ends the
\* sleep at once: whenever the running flag is cleared (by a signal or by a
\* shutdown) and a loop is in its interval sleep, a cancellation that
\* interrupts that sleep is pending, so the loop does not have to wait for
\* the sleep to run out before it stops.
C23_ShutdownInterruptsSleep ==
    \A t \in Tasks : (pc[t] = "sleep" /\ ~running) => cancelReq[t]

\* C24: the browser is closed exactly once per process run: over every
\* shutdown path, the second cleanup() of the web service's lifespan
\* included, browser.close() is never performed a second time.
C24_BrowserClosedOnce == closes <= 1

\* Shutdown has been requested: loops were started and the flag is cleared.
ShutdownRequested == Tasks # {} /\ ~running

\* Every loop has terminated and no browser is left open.
AllStopped == (\A t \in Tasks : Done(t)) /\ browser = "none"

\* C25: once shutdown is requested, and provided every call in flight
\* returns or fails, every monitoring loop eventually terminates and the
\* browser is eventually closed.
C25_ShutdownTerminates == ShutdownRequested ~> AllStopped

\* Witness of C25: after a shutdown request every loop, one of which had
\* run a check, has ended and start() has closed the browser and returned.
C25_Witness ==
    /\ ShutdownRequested /\ AllStopped
    /\ mpc = "done" /\ closes = 1
    /\ \E t \in Tasks : runNo[t] >= 1

\* The steps the loop of t owes in its present state can be taken.
C26_OwnStepsEnabled(t) ==
    /\ (pc[t] \in {"start", "sleep", "backoff"} /\ ~cancelReq[t]) =>
          IF running
          THEN \A hour \in Hours :
                  IF is_within_check_window(courses[t], hour)
                  THEN ChecksStarted < MaxChecks => ENABLED CheckStart(t, hour)
                  ELSE ENABLED WindowClosed(t, hour)
          ELSE ENABLED LoopExit(t)
    /\ (pc[t] = "fetch" /\ ~cancelReq[t]) =>
          \A ok \in BOOLEAN : ENABLED FetchReturns(t, ok)
    /\ (pc[t] = "analyze" /\ ~cancelReq[t]) =>
          \A outcome \in {"available", "unavailable", "raise"} :
              ENABLED AnalysisReturns(t, outcome)
    /\ (pc[t] = "notify" /\ ~cancelReq[t]) =>
          \A res \in {"sent", "failed", "raised"} : ENABLED NotifyReturns(t, res)

\* C26: a slow or hung check of one target never delays another target:
\* whatever the other loops are doing, a call of theirs that never returns
\* included, every step of a target's loop (window evaluation, start of
\* the check, return of its own calls, end of the loop) can be taken as
\* soon as the loop's own state allows it.
C26_NoLoopDelaysAnother == \A t \in Tasks : C26_OwnStepsEnabled(t)

\* Witness of C26: the checks of two targets are in progress together, one
\* still in its fetch while the other has gone on to its notification.
C26_Witness ==
    \E a, b \in Tasks :
        /\ courses[a].id # courses[b].id
        /\ pc[b] = "fetch"
        /\ pc[a] = "notify"

\* The file has a targets list of which no entry is an enabled, valid course.
ZeroTargets ==
    /\ config.has_targets
    /\ \A i \in 1..Len(config.targets) :
          ~config.targets[i].enabled \/ ~CourseConfigValid(config.targets[i])

C27_State ==
    ZeroTargets =>
        /\ Tasks = {} /\ ~running
        /\ (mpc = "done" /\ ~fatal /\ lpc = "serving") =>
              (browser = "none" /\ closes = 1)

C27_Step ==
    (ZeroTargets /\ mpc = "load") =>
        /\ mpc' = "cleanup"
        /\ ~running' /\ ~fatal'
        /\ pc' = <<>> /\ course_tasks' = course_tasks

\* C27: when no target is loaded, run() ends without starting a monitoring
\* loop and without setting the running flag, start() does not fail, and
\* its cleanup still closes the browser that initialize() opened.
C27_ZeroTargetsEndsRun ==
    /\ []C27_State
    /\ [][C27_Step]_vars

\* Witness of C27: a file whose only entries are disabled or invalid; the
\* run is over, without error, and the browser has been closed.
C27_Witness ==
    /\ ZeroTargets /\ Len(config.targets) >= 1
    /\ mpc = "done" /\ ~fatal /\ lpc = "serving"
    /\ closes = 1

\* The entries of the file that are enabled and validate.
KeptEntries == { i \in 1..Len(config.targets) : LoadKeep(config.targets[i]) }

\* cs consists of exactly the kept entries, in the order of the file.
InFileOrder(cs) ==
    \E f \in [1..Len(cs) -> 1..Len(config.targets)] :
        /\ \A j, k \in 1..Len(cs) : j < k => f[j] < f[k]
        /\ { f[k] : k \in 1..Len(cs) } = KeptEntries
        /\ \A k \in 1..Len(cs) : cs[k] = config.targets[f[k]]

C28_State ==
    courses # <<>> =>
        /\ InFileOrder(courses)
        /\ Tasks = 1..Len(courses)
        /\ \A t \in Tasks : courses[t].enabled /\ courses[t].has_instructions

C28_Step ==
    (mpc = "load" /\ config.has_targets /\ KeptEntries # {}) =>
        (InFileOrder(courses') /\ mpc' = "gather")

\* C28: loading is fault-isolated per target: an entry that fails
\* validation and a disabled entry are left out and get no monitoring
\* loop, and every other enabled, valid entry of the same file is loaded,
\* in file order, and gets its loop.
C28_LoadIsolatesBadTargets ==
    /\ []C28_State
    /\ [][C28_Step]_vars

\* Witness of C28: the first entry of the file lacks its instructions, the
\* second one is loaded and monitored.
C28_Witness ==
    /\ Len(config.targets) = 2
    /\ config.targets[1].enabled /\ ~config.targets[1].has_instructions
    /\ Len(courses) = 1 /\ courses[1] = config.targets[2]
    /\ mpc = "gather" /\ Tasks = {1}

C29_State ==
    ~config.has_targets =>
        /\ Tasks = {} /\ courses = <<>> /\ ~running
        /\ (mpc = "done" /\ lpc = "serving") => (fatal /\ browser = "none")

C29_Step ==
    (~config.has_targets /\ mpc = "load") =>
        /\ fatal' /\ mpc' = "cleanup"
        /\ pc' = <<>> /\ ~running'

\* C29: a file that is empty or has no 'targets' key is fatal to startup:
\* loading it makes start() fail, no monitoring loop is ever started, and
\* start()'s cleanup closes the browser that initialize() had opened before
\* start() ends with the error.
C29_MissingTargetsIsFatal ==
    /\ []C29_State
    /\ [][C29_Step]_vars

\* Witness of C29: for a file without 'targets', start() has ended with an
\* error and its cleanup has closed the browser.
C29_Witness ==
    /\ ~config.has_targets
    /\ mpc = "done" /\ fatal /\ lpc = "serving"
    /\ closes = 1 /\ browser = "none"

\* C30: the ids of the loaded targets are pairwise distinct, so that
\* self.course_tasks holds exactly one task per started loop.
C30_LoadedIdsDistinct ==
    /\ \A t, u \in 1..Len(courses) : courses[t].id = courses[u].id => t = u
    /\ Cardinality(Tracked) = Len(courses)

\* ------------------------------------------------ properties of entry bounds
\* C31: every loaded target has a check interval strictly greater than 0
\* and window hours that are each in 0..23 or unset; an entry that violates
\* these bounds is not loaded and gets no monitoring loop.
C31_LoadedWithinBounds ==
    win_loaded = "loaded" =>
        /\ win_target.check_interval_seconds > 0
        /\ win_target.check_start_hour \in (0..23) \cup {None}
        /\ win_target.check_end_hour \in (0..23) \cup {None}

\* ------------------------------------------------ properties of last_check_times
\* The step is the end of a check in the loop t.
EndsCheck(t) == InCheck(t) /\ pc'[t] = "sleep" /\ chk'[t].ended = "normal"

C32_Step(i) ==
    last_check_times'[i] # last_check_times[i] =>
        /\ \E t \in Tasks :
              /\ courses[t].id = i /\ EndsCheck(t)
              /\ last_check_times'[i][1] = t
              /\ \A u \in Tasks \ {t} : pc'[u] = pc[u] /\ chk'[u] = chk[u]
        /\ \A j \in Ids \ {i} : last_check_times'[j] = last_check_times[j]
        /\ mpc' = mpc /\ lpc' = lpc /\ running' = running /\ cpos' = cpos
        /\ last_check_times[i] # NoStamp =>
              last_check_times'[i][1] = last_check_times[i][1]

C32_State(i) ==
    last_check_times[i] # NoStamp => \E t \in Tasks : courses[t].id = i

\* C32: last_check_times is single-writer: the entry of a target changes
\* only in a step of that target's own loop, at the end of a check of it,
\* so every write of the entry comes from one and the same loop; steps of
\* other loops, of the supervisor and of the shutdown leave it unchanged,
\* and the map never holds an id for which no loop was started.
C32_SingleWriter ==
    /\ [](\A i \in Ids : C32_State(i))
    /\ [][\A i \in Ids : C32_Step(i)]_vars

\* Every loop started for the id i has terminated.
LoopsEnded(i) == \A u \in Tasks : courses[u].id = i => Done(u)

\* C33: the last-check state of a target follows the stated lifecycle: it
\* exists from the moment the target's loop is started, and once the loop
\* has terminated (by cancellation or at shutdown) it no longer exists.
C33_Lifecycle ==
    \A t \in Tasks :
        /\ ~Done(t) => last_check_times[courses[t].id] # NoStamp
        /\ LoopsEnded(courses[t].id) =>
              /\ last_check_times[courses[t].id] = NoStamp
              /\ course_tasks[courses[t].id] = 0

\* -------------------------------------------- properties of the rendering
\* Every part of the template is text, an escaped brace or one of the
\* three variables.
Substitutable(template) ==
    \A k \in 1..Len(template) :
        template[k].kind \in {"text", "escaped"}
        \/ (template[k].kind = "field" /\ template[k].name \in KnownFields)

\* The template with its variables substituted.
Substituted(template) ==
    [k \in 1..Len(template) |->
        IF template[k].kind = "field" THEN template[k].name
        ELSE IF template[k].kind = "escaped" THEN "{" ELSE "text"]

\* C34: rendering the message never raises: a custom template whose
\* variables are all among course_name, sections and course_url gives the
\* template with those variables substituted, any template whose
\* substitution fails (unknown variable, malformed template) gives the
\* default format, and the alert is then dispatched to every recipient.
C34_RenderingNeverRaises ==
    /\ fpc # "raised"
    /\ fpc \in {"called", "gather"} =>
          message = IF custom_message # <<>> /\ Substitutable(custom_message)
                    THEN Substituted(custom_message)
                    ELSE Default
    /\ fpc = "called" => ENABLED Dispatch
    /\ fpc = "gather" => Senders = 1..Len(recipients)

\* ------------------------------------------- properties of the fetch session
C35_Step ==
    closes > 0 =>
        /\ \A t \in Tasks : runNo'[t] = runNo[t] /\ (pc'[t] = "fetch" => pc[t] = "fetch")
        /\ browser = "none" => browser' = "none"

\* C35: once cleanup() has closed the browser it is never opened again:
\* from then on no monitoring loop is in a fetch or starts one, so the
\* scraper's lazy initialize() in scrape_page is not reached any more.
C35_NoFetchAfterRelease ==
    /\ [](closes > 0 => \A t \in Tasks : pc[t] # "fetch")
    /\ [][C35_Step]_vars

\* ------------------------------------------------ properties of the scraper
C36_State ==
    /\ s_attempt <= s_max_retries
    /\ s_calls <= 1
    /\ \A k \in 1..Len(s_waits) : s_waits[k] = 2 ^ k
    /\ Len(s_waits) = IF s_pc = "backoff" THEN s_attempt
                      ELSE IF s_attempt = 0 THEN 0 ELSE s_attempt - 1
    /\ s_pc = "returned" =>
          /\ s_result = s_attempt
          /\ s_fails = s_attempt - 1
    /\ (s_pc = "raised" /\ s_attempt >= 1) =>
          /\ s_attempt = s_max_retries
          /\ s_fails = s_max_retries
          /\ s_error[2] = s_max_retries
    /\ s_check = "analyze" => s_pc = "returned"
    /\ s_check = "failed" => s_pc = "raised"

C36_Step ==
    /\ s_pc \in {"returned", "raised"} =>
          (s_pc' = s_pc /\ s_attempt' = s_attempt /\ s_waits' = s_waits)
    /\ s_calls' # s_calls => (s_check = "start" /\ s_calls' = 1)
    /\ s_attempt' # s_attempt => s_attempt' = s_attempt + 1

\* C36: one call of scrape_page makes at most max_retries attempts: it
\* returns the result of the first attempt that succeeds and makes no
\* further one, waits 2^attempt seconds between one attempt and the next
\* and never after the last, and after the max_retries-th failed attempt
\* raises that attempt's error to the check, which has called scrape_page
\* once and does not call it again.
C36_ScrapeRetry ==
    /\ []C36_State
    /\ [][C36_Step]_svars

\* Witness of C36: three attempts failed, with waits of 2 and 4 seconds
\* between them, and the error of the third has ended the check.
C36_Witness ==
    /\ s_check = "failed" /\ s_calls = 1
    /\ s_max_retries = 3 /\ s_fails = 3
    /\ s_waits = << 2, 4 >>
    /\ s_error[2] = 3

\* C37: every browser context and page an attempt of scrape_page opened is
\* closed before the attempt ends, whether it succeeded or failed at any
\* step after the context was created: between attempts, and when
\* scrape_page has returned or raised, no context and no page is open.
C37_ContextsAndPagesClosed ==
    s_pc \in {"backoff", "returned", "raised"} =>
        (s_contexts = 0 /\ s_pages = 0)

\* ------------------------------------------- properties of an empty window
\* Both bounds are set and name the same hour.
EqualBounds ==
    /\ win_target.check_start_hour # None
    /\ win_target.check_start_hour = win_target.check_end_hour

\* C38 as stated: a window whose start and end hours are equal (both set)
\* is never open: the window test is false at every hour, so the loop skips
\* every iteration.
C38_EqualBoundsNeverOpen ==
    (EqualBounds /\ win_result # "none") => win_result = "closed"

\* C38, amended: a window whose start and end hours are equal (both set)
\* and whose timezone resolves is never open: the window test is false at
\* every hour and the iteration does not run the check; when the timezone
\* does not resolve the test fails open and is true at every hour.
C38_EqualBoundsClosedWhenTimezoneResolves ==
    EqualBounds =>
        /\ win_target.tz_ok =>
              /\ win_result # "open"
              /\ ~RunsPipeline(is_within_check_window(win_target, win_hour))
        /\ ~win_target.tz_ok => win_result # "closed"

\* Witness of C38: start and end are both 8, the clock shows 8, and the
\* window test has said closed.
C38_Witness ==
    /\ EqualBounds /\ win_target.tz_ok
    /\ win_target.check_start_hour = 8
    /\ win_hour = 8
    /\ win_result = "closed"

\* ------------------------------------------------ properties of /health
C39_State ==
    /\ health.code \in {0, HTTP_200_OK, HTTP_503_SERVICE_UNAVAILABLE}
    /\ health.code = HTTP_200_OK <=>
          health.background_task_status \in {"not_started", "running"}
    /\ health.code = HTTP_503_SERVICE_UNAVAILABLE <=>
          health.background_task_status \in {"failed", "completed"}
    /\ health.code = HTTP_200_OK <=> health.status = "healthy"
    /\ health.code = HTTP_503_SERVICE_UNAVAILABLE <=> health.status = "unhealthy"

C39_Step ==
    health' # health =>
        /\ health'.background_task_status =
              IF lpc = "startup" THEN "not_started"
              ELSE IF mpc # "done" THEN "running"
              ELSE IF fatal THEN "failed" ELSE "completed"
        /\ health'.code = HTTP_503_SERVICE_UNAVAILABLE <=> (lpc # "startup" /\ mpc = "done")
        /\ (ZeroTargets /\ mpc = "done" /\ lpc = "serving") =>
              health'.code = HTTP_503_SERVICE_UNAVAILABLE

\* C39: /health answers healthy (200) exactly when the crawler task has
\* not been started or is still running, and unhealthy (503) whenever the
\* task has finished, with an exception ('failed') or without one
\* ('completed'); a run that ended because no target was loaded is
\* therefore reported unhealthy.
C39_HealthFollowsTask ==
    /\ []C39_State
    /\ [][C39_Step]_<< vars, hvars >>

\* Witness of C39: the file holds one disabled entry, start() has ended
\* without error, and /health has answered 503 'completed'.
C39_Witness ==
    /\ ZeroTargets /\ Len(config.targets) = 1
    /\ mpc = "done" /\ ~fatal /\ lpc = "serving"
    /\ health.code = HTTP_503_SERVICE_UNAVAILABLE
    /\ health.background_task_status = "completed"

====
